---- MODULE Spec2Model ----
(***************************************************************************)
(* Model of the git command wrapper (packages/core/src/utils/git.ts) and   *)
(* of the REST handlers that expose it (apps/server/src/api/rest.ts).      *)
(*                                                                         *)
(* A "context" is one caller: either a direct call of executeGitCommand    *)
(* (kind "exec"), a direct call of isGitAvailable, or one HTTP request.    *)
(* Every context owns the executeGitCommand invocations it made, in        *)
(* order; every invocation owns its child process' accumulators, its       *)
(* promise and the log of child events delivered to it so far.             *)
(*                                                                         *)
(* SpecExec: concurrent direct calls of executeGitCommand, their child     *)
(* events interleaved.  Spec: the operations and the REST handlers, each   *)
(* suspended at its awaits and resumed when the awaited promise settles.   *)
(***************************************************************************)
EXTENDS Integers, Sequences, FiniteSets, TLC

VARIABLES ctx

vars == <<ctx>>

(***************************************************************************)
(* Bounds.                                                                 *)
(***************************************************************************)
\* contexts that run concurrently
MaxCtx == 2
\* child events delivered in one behaviour, over all children
MaxEvents == 3

Slots == 1..MaxCtx

(***************************************************************************)
(* Text helpers (JavaScript string operations used by the code).           *)
(***************************************************************************)
\* Array.prototype.join(sep)
RECURSIVE JoinWith(_, _)
JoinWith(parts, sep) ==
  IF Len(parts) = 0 THEN ""
  ELSE IF Len(parts) = 1 THEN parts[1]
  ELSE parts[1] \o sep \o JoinWith(Tail(parts), sep)

\* String.prototype.includes(sub)
Includes(s, sub) ==
  \E i \in 1..(Len(s) - Len(sub) + 1) : SubSeq(s, i, i + Len(sub) - 1) = sub

\* String.prototype.startsWith(pre)
StartsWith(s, pre) ==
  Len(s) >= Len(pre) /\ SubSeq(s, 1, Len(pre)) = pre

\* `${error}` for an Error object: Error.prototype.toString
ErrToString(e) ==
  IF e.message = "" THEN "Error" ELSE "Error: " \o e.message

(***************************************************************************)
(* Values.                                                                 *)
(***************************************************************************)
NoError == [message |-> "", code |-> ""]

\* new Error(message)
NewError(message) == [message |-> message, code |-> ""]

Pending == [state |-> "pending", value |-> "", err |-> NoError]

\* process.env.PATH
EnvPath == "/usr/bin"

(***************************************************************************)
(* Promise settlement: resolve and reject of a promise act only while it   *)
(* is pending.                                                             *)
(***************************************************************************)
\* variant: a resolve that takes effect on a settled promise too
ResolveOverwrites(p, v) == [state |-> "resolved", value |-> v, err |-> NoError]

\* resolve(v)
Resolve(p, v) ==
  IF p.state = "pending"
  THEN [state |-> "resolved", value |-> v, err |-> NoError]
  ELSE p

\* reject(e)
Reject(p, e) ==
  IF p.state = "pending"
  THEN [state |-> "rejected", value |-> "", err |-> e]
  ELSE p

Settled(p) == p.state # "pending"

(***************************************************************************)
(* executeGitCommand.                                                      *)
(***************************************************************************)
\* the state set up by one call: spawn('git', args, {cwd}), stdout = '',
\* stderr = '', a pending promise; log is the history of delivered events
NewCall(args, cwd) ==
  [args |-> args, cwd |-> cwd, stdout |-> "", stderr |-> "",
   promise |-> Pending, log |-> <<>>]

StdoutChunks == {"a", "b"}
StderrChunks == {"fatal", "Git executable not found"}
ExitCodes == {0, 1}
\* a spawn failure carries the errno error of the runtime
SpawnErrors ==
  {[message |-> "spawn git ENOENT", code |-> "ENOENT"],
   [message |-> "spawn git EACCES", code |-> "EACCES"]}

NoEnt(args) ==
  "Git executable not found. Please ensure git is installed and available in your PATH.\n"
    \o "Command attempted: git " \o JoinWith(args, " ") \o "\n"
    \o "Current PATH: " \o EnvPath

CommandFailed(args) == "Git command failed: git " \o JoinWith(args, " ")

\* variant: one stdout buffer shared by all calls
StdoutDataShared(cx, s, i, data) ==
  [t \in DOMAIN cx |->
     [cx[t] EXCEPT !.calls =
        [j \in DOMAIN cx[t].calls |->
           [cx[t].calls[j] EXCEPT !.stdout = @ \o data]]]]

\* child.stdout.on('data'): stdout += data
StdoutData(cx, s, i, data) ==
  [cx EXCEPT ![s].calls[i].stdout = @ \o data]

\* child.stderr.on('data'): stderr += data
StderrData(cx, s, i, data) ==
  [cx EXCEPT ![s].calls[i].stderr = @ \o data]

\* variant: 'close' resolves whatever the exit code
CloseIgnoresCode(c, code) == Resolve(c.promise, c.stdout)

\* child.on('close', code)
CloseSettle(c, code) ==
  IF code = 0
  THEN Resolve(c.promise, c.stdout)
  ELSE Reject(c.promise,
              NewError(IF c.stderr # "" THEN c.stderr ELSE CommandFailed(c.args)))

\* variant: every spawn error reported as a missing executable
ErrorAlwaysNoEnt(c, error) == Reject(c.promise, NewError(NoEnt(c.args)))

\* child.on('error', error)
ErrorSettle(c, error) ==
  IF error.code = "ENOENT"
  THEN Reject(c.promise, NewError(NoEnt(c.args)))
  ELSE Reject(c.promise, error)

(***************************************************************************)
(* The child process as the handlers see it.  'data' arrives only while    *)
(* the stdio streams are open, that is before 'close'; 'close' and         *)
(* 'error' are each emitted at most once, in either order.                 *)
(***************************************************************************)
Event(ev, data, code, error) ==
  [ev |-> ev, data |-> data, code |-> code, error |-> error]

Has(log, ev) == \E k \in 1..Len(log) : log[k].ev = ev

RECURSIVE SumLogs(_)
SumLogs(calls) ==
  IF Len(calls) = 0 THEN 0 ELSE Len(calls[1].log) + SumLogs(Tail(calls))

RECURSIVE Delivered(_)
Delivered(S) ==
  IF S = {} THEN 0
  ELSE LET s == CHOOSE x \in S : TRUE
       IN SumLogs(ctx[s].calls) + Delivered(S \ {s})

CanDeliver == Delivered(Slots) < MaxEvents

Deliver(cx, s, i, e) ==
  ctx' = [cx EXCEPT ![s].calls[i].log = Append(@, e)]

Open(s, i, ev) ==
  /\ CanDeliver
  /\ i \in 1..Len(ctx[s].calls)
  /\ ~Has(ctx[s].calls[i].log, ev)

OnStdoutData(s, i) ==
  /\ Open(s, i, "close")
  /\ \E d \in StdoutChunks :
       Deliver(StdoutData(ctx, s, i, d), s, i, Event("stdout", d, 0, NoError))

OnStderrData(s, i) ==
  /\ Open(s, i, "close")
  /\ \E d \in StderrChunks :
       Deliver(StderrData(ctx, s, i, d), s, i, Event("stderr", d, 0, NoError))

OnClose(s, i) ==
  /\ Open(s, i, "close")
  /\ \E code \in ExitCodes :
       Deliver([ctx EXCEPT ![s].calls[i].promise =
                             CloseSettle(ctx[s].calls[i], code)],
               s, i, Event("close", "", code, NoError))

OnError(s, i) ==
  /\ Open(s, i, "error")
  /\ \E error \in SpawnErrors :
       Deliver([ctx EXCEPT ![s].calls[i].promise =
                             ErrorSettle(ctx[s].calls[i], error)],
               s, i, Event("error", "", 0, error))

ChildEvent ==
  \E s \in Slots : \E i \in 1..2 :
    \/ OnStdoutData(s, i)
    \/ OnStderrData(s, i)
    \/ OnClose(s, i)
    \/ OnError(s, i)

(***************************************************************************)
(* Contexts.                                                               *)
(***************************************************************************)
NoVal == [tag |-> "none"]

NoQuery == [kind |-> "missing", len |-> 0]

Idle ==
  [route |-> "none", kind |-> "idle", pc |-> "idle", calls |-> <<>>,
   projectPath |-> "", worktreePath |-> "", branchName |-> "", filePath |-> "",
   op |-> [state |-> "pending", value |-> NoVal, err |-> NoError],
   res |-> <<>>,
   query |-> NoQuery, validateCalls |-> 0, listCalls |-> 0, lookup |-> FALSE]

\* the invocation a suspended operation is awaiting: the last one it made
Cur(c) == c.calls[Len(c.calls)]

\* a direct call executeGitCommand(args, cwd)
RawArgs == {<<"diff">>, <<"status", "--porcelain=v1">>}

CallExecuteGitCommand(s) ==
  /\ ctx[s].pc = "idle"
  /\ \E args \in RawArgs :
       ctx' = [ctx EXCEPT ![s] =
                 [@ EXCEPT !.kind = "exec", !.pc = "awaitCall",
                           !.calls = <<NewCall(args, "/repo")>>]]

InitExec == ctx = [s \in Slots |-> Idle]

NextExec ==
  \/ \E s \in Slots : CallExecuteGitCommand(s)
  \/ ChildEvent

SpecExec == InitExec /\ [][NextExec]_vars

(***************************************************************************)
(* Path helpers (posix path.join and path.basename).                       *)
(***************************************************************************)
RECURSIVE SplitFrom(_, _, _)
SplitFrom(s, i, cur) ==
  IF i > Len(s) THEN <<cur>>
  ELSE IF SubSeq(s, i, i) = "/" THEN <<cur>> \o SplitFrom(s, i + 1, "")
  ELSE SplitFrom(s, i + 1, cur \o SubSeq(s, i, i))

Segments(s) == SplitFrom(s, 1, "")

NonEmpty(seq) == SelectSeq(seq, LAMBDA x : x # "")

RECURSIVE NormSegs(_, _, _)
NormSegs(segs, acc, allowAbove) ==
  IF Len(segs) = 0 THEN acc
  ELSE LET h == Head(segs)
           t == Tail(segs)
       IN IF h = "" \/ h = "." THEN NormSegs(t, acc, allowAbove)
          ELSE IF h = ".."
          THEN IF Len(acc) > 0 /\ acc[Len(acc)] # ".."
               THEN NormSegs(t, SubSeq(acc, 1, Len(acc) - 1), allowAbove)
               ELSE IF allowAbove THEN NormSegs(t, Append(acc, ".."), allowAbove)
               ELSE NormSegs(t, acc, allowAbove)
          ELSE NormSegs(t, Append(acc, h), allowAbove)

PathNormalize(p) ==
  IF p = "" THEN "."
  ELSE LET isAbs == SubSeq(p, 1, 1) = "/"
           trailing == SubSeq(p, Len(p), Len(p)) = "/"
           body == JoinWith(NormSegs(Segments(p), <<>>, ~isAbs), "/")
       IN IF body = ""
          THEN (IF isAbs THEN "/" ELSE IF trailing THEN "./" ELSE ".")
          ELSE (IF isAbs THEN "/" ELSE "") \o body \o (IF trailing THEN "/" ELSE "")

PathJoin(parts) ==
  LET joined == JoinWith(NonEmpty(parts), "/")
  IN IF joined = "" THEN "." ELSE PathNormalize(joined)

PathBasename(p) ==
  LET segs == NonEmpty(Segments(p))
  IN IF Len(segs) = 0 THEN "" ELSE segs[Len(segs)]

(***************************************************************************)
(* Git operations.  Each runs synchronously up to its first await (the     *)
(* Start operator) and resumes when the awaited invocation has settled.    *)
(***************************************************************************)
Begin(c, kind, args, cwd) ==
  [c EXCEPT !.kind = kind, !.pc = "opAwait", !.calls = <<NewCall(args, cwd)>>]

\* git-parser: the parsed form of an output text
ParseWorktrees(output) == [tag |-> "worktrees", parsedFrom |-> output]
ParseGitStatus(output) == [tag |-> "status", parsedFrom |-> output]

\* the output an operation gets from the invocation it awaited
Output(c) == Cur(c).promise.value

\* an operation that awaits one invocation and returns result when it
\* succeeded
FinishWith(c, result) ==
  LET p == Cur(c).promise
  IN [c EXCEPT !.pc = "opDone",
               !.op = IF p.state = "resolved"
                      THEN Resolve(@, result)
                      ELSE Reject(@, p.err)]

ListWorktreesStart(c, projectPath) ==
  Begin([c EXCEPT !.projectPath = projectPath], "listWorktrees",
        <<"worktree", "list", "--porcelain">>, projectPath)

ListWorktreesResume(c) == FinishWith(c, ParseWorktrees(Output(c)))

GetGitStatusStart(c, worktreePath) ==
  Begin([c EXCEPT !.worktreePath = worktreePath], "getGitStatus",
        <<"status", "--porcelain=v1">>, worktreePath)

GetGitStatusResume(c) == FinishWith(c, ParseGitStatus(Output(c)))

\* filePath "" stands for an absent filePath
GetGitDiffStart(c, worktreePath, filePath) ==
  Begin([c EXCEPT !.worktreePath = worktreePath, !.filePath = filePath],
        "getGitDiff",
        IF filePath # "" THEN <<"diff", filePath>> ELSE <<"diff">>,
        worktreePath)

Text(output) == [tag |-> "text", text |-> output]

GetGitDiffResume(c) == FinishWith(c, Text(Output(c)))

\* variant: the target placed inside projectPath
AddWorktreePathInside(projectPath, branchName) ==
  PathJoin(<<projectPath, PathBasename(projectPath) \o "-" \o branchName>>)

\* path.join(projectPath, '..', `${path.basename(projectPath)}-${branchName}`)
AddWorktreePath(projectPath, branchName) ==
  PathJoin(<<projectPath, "..", PathBasename(projectPath) \o "-" \o branchName>>)

AddWorktreeStart(c, projectPath, branchName) ==
  Begin([c EXCEPT !.projectPath = projectPath, !.branchName = branchName],
        "addWorktree",
        <<"worktree", "add", "-b", branchName,
          AddWorktreePath(projectPath, branchName)>>,
        projectPath)

AddWorktreeResume(c) ==
  FinishWith(c, [tag |-> "add",
                 path |-> AddWorktreePath(c.projectPath, c.branchName),
                 branch |-> c.branchName])

RemoveWorktreeStart(c, projectPath, worktreePath, branchName) ==
  Begin([c EXCEPT !.projectPath = projectPath, !.worktreePath = worktreePath,
                  !.branchName = branchName],
        "removeWorktree",
        <<"worktree", "remove", worktreePath, "--force">>, projectPath)

BranchDelete(c) ==
  [c EXCEPT !.calls = Append(@, NewCall(<<"branch", "-D", c.branchName>>,
                                        c.projectPath))]

\* variant: the branch deleted whatever became of 'worktree remove'
RemoveWorktreeRemovedAlwaysBranch(c) == BranchDelete(c)

\* resumption after 'worktree remove'
RemoveWorktreeRemoved(c) ==
  LET p == Cur(c).promise
  IN IF p.state = "resolved"
     THEN BranchDelete(c)
     ELSE [c EXCEPT !.pc = "opDone",
                    !.op = Reject(@, NewError("Failed to remove worktree: "
                                               \o ErrToString(p.err)))]

\* variant: a failed branch deletion fails the operation
RemoveWorktreeBranchStrict(c) ==
  LET p == Cur(c).promise
  IN [c EXCEPT !.pc = "opDone",
               !.op = IF p.state = "resolved"
                      THEN Resolve(@, [tag |-> "remove", success |-> TRUE])
                      ELSE Reject(@, NewError("Failed to remove worktree: "
                                               \o ErrToString(p.err)))]

\* resumption after 'branch -D'
RemoveWorktreeBranchDone(c) ==
  LET p == Cur(c).promise
  IN [c EXCEPT !.pc = "opDone",
               !.op = IF p.state = "resolved"
                      THEN Resolve(@, [tag |-> "remove", success |-> TRUE])
                      ELSE Resolve(@, [tag |-> "remove", success |-> TRUE,
                                       warning |->
                                         "Worktree removed but failed to delete branch: "
                                           \o ErrToString(p.err)])]

\* process.cwd()
ProcessCwd == "/srv"

IsGitAvailableStart(c) ==
  Begin(c, "isGitAvailable", <<"--version">>, ProcessCwd)

Bool(b) == [tag |-> "bool", b |-> b]

IsGitAvailableResume(c) ==
  LET p == Cur(c).promise
  IN [c EXCEPT !.pc = "opDone",
               !.op = IF p.state = "resolved"
                      THEN Resolve(@, Bool(TRUE))
                      ELSE IF Includes(p.err.message, "Git executable not found")
                      THEN Resolve(@, Bool(FALSE))
                      ELSE Resolve(@, Bool(TRUE))]

(***************************************************************************)
(* Resumption of the suspended operations, once the awaited invocation     *)
(* has settled.                                                            *)
(***************************************************************************)
Awaiting(s, kind, n) ==
  /\ ctx[s].kind = kind
  /\ ctx[s].pc = "opAwait"
  /\ Len(ctx[s].calls) = n
  /\ Settled(Cur(ctx[s]).promise)

ListWorktreesContinue(s) ==
  /\ Awaiting(s, "listWorktrees", 1)
  /\ ctx' = [ctx EXCEPT ![s] = ListWorktreesResume(@)]

GetGitStatusContinue(s) ==
  /\ Awaiting(s, "getGitStatus", 1)
  /\ ctx' = [ctx EXCEPT ![s] = GetGitStatusResume(@)]

GetGitDiffContinue(s) ==
  /\ Awaiting(s, "getGitDiff", 1)
  /\ ctx' = [ctx EXCEPT ![s] = GetGitDiffResume(@)]

AddWorktreeContinue(s) ==
  /\ Awaiting(s, "addWorktree", 1)
  /\ ctx' = [ctx EXCEPT ![s] = AddWorktreeResume(@)]

RemoveWorktreeContinue1(s) ==
  /\ Awaiting(s, "removeWorktree", 1)
  /\ ctx' = [ctx EXCEPT ![s] = RemoveWorktreeRemoved(@)]

RemoveWorktreeContinue2(s) ==
  /\ Awaiting(s, "removeWorktree", 2)
  /\ ctx' = [ctx EXCEPT ![s] = RemoveWorktreeBranchDone(@)]

IsGitAvailableContinue(s) ==
  /\ Awaiting(s, "isGitAvailable", 1)
  /\ ctx' = [ctx EXCEPT ![s] = IsGitAvailableResume(@)]

\* a direct call isGitAvailable()
CallIsGitAvailable(s) ==
  /\ ctx[s].pc = "idle"
  /\ ctx' = [ctx EXCEPT ![s] = IsGitAvailableStart(@)]

(***************************************************************************)
(* REST handlers.  A request's inputs are drawn when it arrives.           *)
(***************************************************************************)
ProjectPaths == {"/a/proj", "/a/proj/", "proj"}
WorktreePaths == {"/a/proj-feat"}
BranchNames == {"feat", "f/x"}
FilePaths == {"", "f.txt"}

Response(status, body) == [status |-> status, body |-> body]

Send(c, status, body) ==
  [c EXCEPT !.pc = "done", !.res = Append(@, Response(status, body))]

\* variant: the error body sent with status 200
GitFailureAsOk(c) == Send(c, 200, [error |-> c.op.err.message])

\* catch (error) { res.status(500).json({error: error.message}) }
GitFailure(c) == Send(c, 500, [error |-> c.op.err.message])

\* try { res.json(body) } catch ..., body built from the awaited result
GitRespond(c, body) ==
  IF c.op.state = "resolved"
  THEN Send(c, 200, body)
  ELSE GitFailure(c)

Arrives(s) == ctx[s].pc = "idle"

Responding(s, route) ==
  /\ ctx[s].route = route
  /\ ctx[s].pc = "opDone"

Json(v) == [json |-> v]
DiffBody(v) == [diff |-> v.text]

PostGitWorktrees(s) ==
  /\ Arrives(s)
  /\ \E projectPath \in ProjectPaths :
       ctx' = [ctx EXCEPT ![s] =
                 ListWorktreesStart([@ EXCEPT !.route = "POST /api/git/worktrees"],
                                    projectPath)]

PostGitWorktreesRespond(s) ==
  /\ Responding(s, "POST /api/git/worktrees")
  /\ ctx' = [ctx EXCEPT ![s] = GitRespond(@, Json(@.op.value))]

PostGitStatus(s) ==
  /\ Arrives(s)
  /\ \E worktreePath \in WorktreePaths :
       ctx' = [ctx EXCEPT ![s] =
                 GetGitStatusStart([@ EXCEPT !.route = "POST /api/git/status"],
                                   worktreePath)]

PostGitStatusRespond(s) ==
  /\ Responding(s, "POST /api/git/status")
  /\ ctx' = [ctx EXCEPT ![s] = GitRespond(@, Json(@.op.value))]

PostGitDiff(s) ==
  /\ Arrives(s)
  /\ \E worktreePath \in WorktreePaths : \E filePath \in FilePaths :
       ctx' = [ctx EXCEPT ![s] =
                 GetGitDiffStart([@ EXCEPT !.route = "POST /api/git/diff"],
                                 worktreePath, filePath)]

PostGitDiffRespond(s) ==
  /\ Responding(s, "POST /api/git/diff")
  /\ ctx' = [ctx EXCEPT ![s] = GitRespond(@, DiffBody(@.op.value))]

PostGitWorktreeAdd(s) ==
  /\ Arrives(s)
  /\ \E projectPath \in ProjectPaths : \E branchName \in BranchNames :
       ctx' = [ctx EXCEPT ![s] =
                 AddWorktreeStart([@ EXCEPT !.route = "POST /api/git/worktree/add"],
                                  projectPath, branchName)]

PostGitWorktreeAddRespond(s) ==
  /\ Responding(s, "POST /api/git/worktree/add")
  /\ ctx' = [ctx EXCEPT ![s] = GitRespond(@, Json(@.op.value))]

DeleteGitWorktree(s) ==
  /\ Arrives(s)
  /\ \E projectPath \in {"/a/proj"} : \E worktreePath \in WorktreePaths :
       \E branchName \in {"feat"} :
         ctx' = [ctx EXCEPT ![s] =
                   RemoveWorktreeStart([@ EXCEPT !.route = "DELETE /api/git/worktree"],
                                       projectPath, worktreePath, branchName)]

DeleteGitWorktreeRespond(s) ==
  /\ Responding(s, "DELETE /api/git/worktree")
  /\ ctx' = [ctx EXCEPT ![s] = GitRespond(@, Json(@.op.value))]

\* authService.disconnectDevice / shellManager.terminateSession report a hit or a miss
LookupRespond(c, route, hit, missing) ==
  LET d == [c EXCEPT !.route = route, !.kind = "lookup", !.lookup = hit]
  IN IF hit THEN Send(d, 200, [success |-> TRUE])
     ELSE Send(d, 404, [error |-> missing])

DeleteDevice(s) ==
  /\ Arrives(s)
  /\ \E hit \in BOOLEAN :
       ctx' = [ctx EXCEPT ![s] =
                 LookupRespond(@, "DELETE /api/devices/:deviceId", hit,
                               "Device not found")]

DeleteShell(s) ==
  /\ Arrives(s)
  /\ \E hit \in BOOLEAN :
       ctx' = [ctx EXCEPT ![s] =
                 LookupRespond(@, "DELETE /api/shells/:sessionId", hit,
                               "Session not found")]

(***************************************************************************)
(* Directory handlers.  The 'path' query parameter is modelled by what     *)
(* the guard reads of it: whether it is absent, a string or an array, and  *)
(* its length.  validatePath and listDirectories are external helpers;     *)
(* their outcome is chosen when they complete.                             *)
(***************************************************************************)
DirMaxPathLen == 1000
ValidateMaxPathLen == 1000

PathLens == {0, 1, 1000, 1001}

Queries ==
  {NoQuery, [kind |-> "array", len |-> 2]}
    \cup {[kind |-> "string", len |-> l] : l \in PathLens}

\* variant: a path of exactly limit characters refused
InvalidPathParamOffByOne(q, limit) ==
  \/ q.kind = "missing"
  \/ (q.kind = "string" /\ q.len = 0)
  \/ q.kind # "string"
  \/ q.len >= limit

\* !path || typeof path !== 'string' || path.length > limit
InvalidPathParam(q, limit) ==
  \/ q.kind = "missing"
  \/ (q.kind = "string" /\ q.len = 0)
  \/ q.kind # "string"
  \/ q.len > limit

CallValidatePath(c) ==
  [c EXCEPT !.pc = "awaitValidate", !.validateCalls = @ + 1]

CallListDirectories(c) ==
  [c EXCEPT !.pc = "awaitList", !.listCalls = @ + 1]

PathGuard(c, route, q, limit) ==
  LET d == [c EXCEPT !.route = route, !.kind = "directories", !.query = q]
  IN IF InvalidPathParam(q, limit)
     THEN Send(d, 400, [error |-> "Invalid path parameter"])
     ELSE CallValidatePath(d)

ValidateOutcomes ==
  {[valid |-> TRUE, error |-> "", throws |-> FALSE],
   [valid |-> FALSE, error |-> "ENOTDIR", throws |-> FALSE],
   [valid |-> FALSE, error |-> "", throws |-> FALSE],
   [valid |-> FALSE, error |-> "", throws |-> TRUE]}

GetDirectories(s) ==
  /\ Arrives(s)
  /\ \E q \in Queries :
       ctx' = [ctx EXCEPT ![s] =
                 PathGuard(@, "GET /api/directories", q, DirMaxPathLen)]

GetDirectoriesValidated(s) ==
  /\ ctx[s].route = "GET /api/directories"
  /\ ctx[s].pc = "awaitValidate"
  /\ \E v \in ValidateOutcomes :
       ctx' = [ctx EXCEPT ![s] =
                 IF v.throws
                 THEN Send(@, 500, [error |-> "Directory operation failed"])
                 ELSE IF ~v.valid
                 THEN Send(@, 400,
                           [error |-> "Invalid path",
                            details |-> IF v.error # "" THEN v.error
                                        ELSE "Path is not accessible"])
                 ELSE CallListDirectories(@)]

GetDirectoriesListed(s) ==
  /\ ctx[s].route = "GET /api/directories"
  /\ ctx[s].pc = "awaitList"
  /\ \E throws \in BOOLEAN :
       ctx' = [ctx EXCEPT ![s] =
                 IF throws
                 THEN Send(@, 500, [error |-> "Directory operation failed"])
                 ELSE Send(@, 200, [query |-> @.query, directories |-> "listing",
                                    success |-> TRUE])]

GetDirectoriesValidate(s) ==
  /\ Arrives(s)
  /\ \E q \in Queries :
       ctx' = [ctx EXCEPT ![s] =
                 PathGuard(@, "GET /api/directories/validate", q,
                           ValidateMaxPathLen)]

GetDirectoriesValidateValidated(s) ==
  /\ ctx[s].route = "GET /api/directories/validate"
  /\ ctx[s].pc = "awaitValidate"
  /\ \E v \in ValidateOutcomes :
       ctx' = [ctx EXCEPT ![s] =
                 IF v.throws
                 THEN Send(@, 500, [error |-> "Path validation failed"])
                 ELSE Send(@, 200, [query |-> @.query, validation |-> v,
                                    success |-> TRUE])]

(***************************************************************************)
(* The server: requests and direct calls of the operations.  The handlers  *)
(* share no variable (the state of a request lives in its own closure),    *)
(* so one context is followed from arrival to response; concurrent         *)
(* invocations of the executor are the subject of SpecExec.                *)
(***************************************************************************)
Alone(s) == \A t \in Slots \ {s} : ctx[t].pc = "idle"

Init == ctx = [s \in Slots |-> Idle]

Next ==
  \/ \E s \in Slots : Alone(s) /\ PostGitWorktrees(s)
  \/ \E s \in Slots : PostGitWorktreesRespond(s)
  \/ \E s \in Slots : Alone(s) /\ PostGitStatus(s)
  \/ \E s \in Slots : PostGitStatusRespond(s)
  \/ \E s \in Slots : Alone(s) /\ PostGitDiff(s)
  \/ \E s \in Slots : PostGitDiffRespond(s)
  \/ \E s \in Slots : Alone(s) /\ PostGitWorktreeAdd(s)
  \/ \E s \in Slots : PostGitWorktreeAddRespond(s)
  \/ \E s \in Slots : Alone(s) /\ DeleteGitWorktree(s)
  \/ \E s \in Slots : DeleteGitWorktreeRespond(s)
  \/ \E s \in Slots : Alone(s) /\ DeleteDevice(s)
  \/ \E s \in Slots : Alone(s) /\ DeleteShell(s)
  \/ \E s \in Slots : Alone(s) /\ GetDirectories(s)
  \/ \E s \in Slots : GetDirectoriesValidated(s)
  \/ \E s \in Slots : GetDirectoriesListed(s)
  \/ \E s \in Slots : Alone(s) /\ GetDirectoriesValidate(s)
  \/ \E s \in Slots : GetDirectoriesValidateValidated(s)
  \/ \E s \in Slots : Alone(s) /\ CallIsGitAvailable(s)
  \/ \E s \in Slots : ListWorktreesContinue(s)
  \/ \E s \in Slots : GetGitStatusContinue(s)
  \/ \E s \in Slots : GetGitDiffContinue(s)
  \/ \E s \in Slots : AddWorktreeContinue(s)
  \/ \E s \in Slots : RemoveWorktreeContinue1(s)
  \/ \E s \in Slots : RemoveWorktreeContinue2(s)
  \/ \E s \in Slots : IsGitAvailableContinue(s)
  \/ ChildEvent

Spec == Init /\ [][Next]_vars

(***************************************************************************)
(* Properties.  What a call should produce is read off the log of the      *)
(* events its own child delivered.                                         *)
(***************************************************************************)
CallIds == {<<s, i>> \in Slots \X (1..2) : i <= Len(ctx[s].calls)}

CallAt(id) == ctx[id[1]].calls[id[2]]

Terminal(e) == e.ev = "close" \/ e.ev = "error"

\* index of the first 'close' or 'error' of a log, 0 when there is none
FirstTerminal(log) ==
  IF \E k \in 1..Len(log) : Terminal(log[k])
  THEN CHOOSE k \in 1..Len(log) :
         Terminal(log[k]) /\ \A j \in 1..(k - 1) : ~Terminal(log[j])
  ELSE 0

\* the chunks of one stream, concatenated in arrival order
RECURSIVE Chunks(_, _)
Chunks(log, ev) ==
  IF Len(log) = 0 THEN ""
  ELSE (IF log[1].ev = ev THEN log[1].data ELSE "") \o Chunks(Tail(log), ev)

ClosedFirst(c) ==
  FirstTerminal(c.log) > 0 /\ c.log[FirstTerminal(c.log)].ev = "close"

FailedFirst(c) ==
  FirstTerminal(c.log) > 0 /\ c.log[FirstTerminal(c.log)].ev = "error"

\* C1: a call's promise is settled by the first 'close' or 'error' delivered
\* to it, by nothing else, and once settled no later event changes its
\* state, value or error.
C1_SettledExactlyOnce ==
  [][\A id \in CallIds :
       LET c == CallAt(id)
           d == ctx'[id[1]].calls[id[2]]
           terminalNow == Len(d.log) > Len(c.log) /\ Terminal(d.log[Len(d.log)])
       IN /\ Settled(c.promise) => d.promise = c.promise
          /\ ~Settled(c.promise) => (Settled(d.promise) <=> terminalNow)]_vars

\* a call that got stdout data, then 'close', then 'error'
C1_Witness ==
  \E id \in CallIds :
    LET c == CallAt(id)
    IN /\ Len(c.log) = 3
       /\ c.log[1].ev = "stdout" /\ c.log[2].ev = "close" /\ c.log[3].ev = "error"
       /\ Settled(c.promise)

\* C2: when 'close' is the first terminal event of a call, exit code 0
\* resolves with all stdout chunks concatenated in arrival order, and any
\* other code rejects with the concatenated stderr text when that is
\* non-empty and otherwise with 'Git command failed: git <args>'.
C2_CloseOutcome ==
  \A id \in CallIds :
    LET c == CallAt(id)
        code == c.log[FirstTerminal(c.log)].code
        out == Chunks(c.log, "stdout")
        err == Chunks(c.log, "stderr")
    IN ClosedFirst(c) =>
         IF code = 0
         THEN c.promise = [state |-> "resolved", value |-> out, err |-> NoError]
         ELSE /\ c.promise.state = "rejected"
              /\ c.promise.err.message =
                   IF err # "" THEN err
                   ELSE "Git command failed: git " \o JoinWith(c.args, " ")

\* two different stdout chunks, then exit code 0
C2_Witness ==
  \E id \in CallIds :
    LET c == CallAt(id)
    IN ClosedFirst(c) /\ c.promise.state = "resolved" /\ c.promise.value = "ba"

\* C3: when 'error' is the first terminal event of a call, the promise is
\* rejected; with error code ENOENT the rejection is the diagnostic that
\* starts 'Git executable not found' and embeds the command line and PATH,
\* with any other code it is the error object itself; a 'close' delivered
\* afterwards changes nothing.
C3_SpawnFailureOutcome ==
  \A id \in CallIds :
    LET c == CallAt(id)
        error == c.log[FirstTerminal(c.log)].error
        m == c.promise.err.message
    IN FailedFirst(c) =>
         /\ c.promise.state = "rejected"
         /\ StartsWith(m, "Git executable not found") <=> error.code = "ENOENT"
         /\ error.code = "ENOENT" =>
              /\ Includes(m, "git " \o JoinWith(c.args, " "))
              /\ Includes(m, EnvPath)
         /\ error.code # "ENOENT" => c.promise.err = error

\* a spawn failure followed by a 'close' of the same child
C3_Witness ==
  \E id \in CallIds :
    LET c == CallAt(id)
    IN /\ Len(c.log) = 2
       /\ c.log[1].ev = "error" /\ c.log[1].error.code = "ENOENT"
       /\ c.log[2].ev = "close" /\ c.log[2].code # 0
       /\ c.promise.state = "rejected"

\* what a call produces from its own log, taken alone
Alone_Outcome(c) ==
  LET k == FirstTerminal(c.log)
      e == c.log[k]
      err == Chunks(SubSeq(c.log, 1, k), "stderr")
  IN IF k = 0 THEN Pending
     ELSE IF e.ev = "close"
     THEN IF e.code = 0
          THEN [state |-> "resolved",
                value |-> Chunks(SubSeq(c.log, 1, k), "stdout"), err |-> NoError]
          ELSE [state |-> "rejected", value |-> "",
                err |-> NewError(IF err # "" THEN err ELSE CommandFailed(c.args))]
     ELSE [state |-> "rejected", value |-> "",
           err |-> IF e.error.code = "ENOENT" THEN NewError(NoEnt(c.args))
                   ELSE e.error]

\* C9: whatever the interleaving of the events of the calls in flight, each
\* call has accumulated the chunks of its own child only and its promise is
\* the one its own log gives: pending while its child has delivered no
\* 'close' or 'error', settled as soon as it has, whatever the other
\* children did or failed to do.
C9_CallsIndependent ==
  \A id \in CallIds :
    LET c == CallAt(id)
    IN /\ c.stdout = Chunks(c.log, "stdout")
       /\ c.stderr = Chunks(c.log, "stderr")
       /\ c.promise = Alone_Outcome(c)

\* two calls in flight: one child has written and not exited, the other
\* has written and exited after it
C9_Witness ==
  \E id1, id2 \in CallIds :
    LET c == CallAt(id1)
        d == CallAt(id2)
    IN /\ id1[1] # id2[1]
       /\ c.stdout = "a" /\ ~Settled(c.promise)
       /\ d.stdout = "b" /\ d.promise.state = "resolved"

(***************************************************************************)
(* Properties of the operations and of the handlers.                       *)
(***************************************************************************)
Finished(c) == c.pc = "opDone" \/ c.pc = "done"

Of(kind) == {s \in Slots : ctx[s].kind = kind}

\* C4: removeWorktree ends in one of three ways.  Both invocations
\* succeeded: {success: true} and no warning.  'worktree remove' succeeded
\* and 'branch -D' failed: still resolved, {success: true} with a non-empty
\* warning that contains the text of the branch deletion error.  'worktree
\* remove' failed: rejected with 'Failed to remove worktree: ...' containing
\* the text of that error.  It never resolves with success false, and it is
\* pending until then.
C4_RemoveWorktreeOutcomes ==
  \A s \in Of("removeWorktree") :
    LET c == ctx[s]
        first == c.calls[1].promise
        second == c.calls[2].promise
    IN /\ ~Finished(c) => c.op.state = "pending"
       /\ Finished(c) =>
            /\ Settled(first)
            /\ first.state = "rejected" =>
                 /\ c.op.state = "rejected"
                 /\ StartsWith(c.op.err.message, "Failed to remove worktree: ")
                 /\ Includes(c.op.err.message, first.err.message)
            /\ first.state = "resolved" =>
                 /\ Len(c.calls) = 2 /\ Settled(second)
                 /\ c.op.state = "resolved"
                 /\ c.op.value.success = TRUE
                 /\ second.state = "resolved" =>
                      c.op.value = [tag |-> "remove", success |-> TRUE]
                 /\ second.state = "rejected" =>
                      /\ "warning" \in DOMAIN c.op.value
                      /\ c.op.value.warning # ""
                      /\ Includes(c.op.value.warning, second.err.message)

\* the worktree was removed and the branch deletion failed with stderr text
C4_Witness ==
  \E s \in Of("removeWorktree") :
    /\ Finished(ctx[s])
    /\ Len(ctx[s].calls) = 2
    /\ ctx[s].calls[2].promise.state = "rejected"
    /\ ctx[s].calls[2].stderr # ""
    /\ ctx[s].op.state = "resolved"

\* C5: isGitAvailable never rejects, and it returns false exactly when its
\* probe failed to spawn with ENOENT; after exit 0, a non-zero exit or any
\* other spawn error it returns true.
C5_FalseOnlyWhenGitMissing ==
  \A s \in Of("isGitAvailable") :
    LET c == ctx[s]
        probe == c.calls[1]
    IN Finished(c) =>
         /\ c.op.state = "resolved"
         /\ c.op.value.b = FALSE <=>
              (FailedFirst(probe)
                 /\ probe.log[FirstTerminal(probe.log)].error.code = "ENOENT")

\* posix path.dirname, for paths without '.' and '..' segments
Dirname(p) ==
  LET segs == NonEmpty(Segments(p))
      isAbs == p # "" /\ SubSeq(p, 1, 1) = "/"
  IN IF Len(segs) <= 1 THEN (IF isAbs THEN "/" ELSE ".")
     ELSE (IF isAbs THEN "/" ELSE "")
            \o JoinWith(SubSeq(segs, 1, Len(segs) - 1), "/")

\* the entry called name in the directory that holds p
Sibling(p, name) ==
  IF Dirname(p) = "/" THEN "/" \o name
  ELSE IF Dirname(p) = "." THEN name
  ELSE Dirname(p) \o "/" \o name

\* C6: addWorktree makes exactly one invocation, 'worktree add -b <branch>
\* <target>' in projectPath, where target is the sibling of projectPath
\* called '<basename(projectPath)>-<branch>'; when the invocation succeeds
\* the result is {path: target, branch}, whatever git printed, and when it
\* fails the call rejects with the error of the invocation.
C6_AddWorktree ==
  \A s \in Of("addWorktree") :
    LET c == ctx[s]
        target == Sibling(c.projectPath,
                          PathBasename(c.projectPath) \o "-" \o c.branchName)
        call == c.calls[1]
    IN /\ Len(c.calls) = 1
       /\ call.args = <<"worktree", "add", "-b", c.branchName, target>>
       /\ call.cwd = c.projectPath
       /\ (c.projectPath = "/a/proj" /\ c.branchName = "feat")
            => target = "/a/proj-feat"
       /\ ~Finished(c) => c.op.state = "pending"
       /\ Finished(c) =>
            /\ call.promise.state = "resolved" =>
                 /\ c.op.state = "resolved"
                 /\ c.op.value =
                      [tag |-> "add", path |-> target, branch |-> c.branchName]
            /\ call.promise.state = "rejected" =>
                 /\ c.op.state = "rejected"
                 /\ c.op.err = call.promise.err

\* addWorktree('/a/proj/', 'feat') succeeded after git printed something
C6_Witness ==
  \E s \in Of("addWorktree") :
    /\ ctx[s].projectPath = "/a/proj/"
    /\ ctx[s].branchName = "feat"
    /\ ctx[s].calls[1].stdout # ""
    /\ ctx[s].op.state = "resolved"
    /\ ctx[s].op.value.path = "/a/proj-feat"

DirectoryRoutes == {"GET /api/directories", "GET /api/directories/validate"}

\* C7: on both directory routes a 'path' that is missing, empty or longer
\* than 1000 characters is answered 400 with an error field and neither
\* validatePath nor listDirectories is invoked; a non-empty path of at
\* most 1000 characters passes the check, that is validatePath is invoked.
C7_PathParameterCheck ==
  \A s \in Slots :
    LET c == ctx[s]
        q == c.query
    IN c.route \in DirectoryRoutes =>
         /\ (q.kind = "missing" \/ (q.kind = "string" /\ (q.len = 0 \/ q.len > 1000)))
              => /\ Len(c.res) = 1
                 /\ c.res[1].status = 400
                 /\ "error" \in DOMAIN c.res[1].body
                 /\ c.validateCalls = 0
                 /\ c.listCalls = 0
         /\ (q.kind = "string" /\ q.len >= 1 /\ q.len <= 1000)
              => c.validateCalls = 1

\* a path of 1001 characters was answered 400
C7_Witness ==
  \E s \in Slots :
    /\ ctx[s].route = "GET /api/directories"
    /\ ctx[s].query = [kind |-> "string", len |-> 1001]
    /\ Len(ctx[s].res) = 1
    /\ ctx[s].res[1].status = 400

GitRoutes ==
  {"POST /api/git/worktrees", "POST /api/git/status", "POST /api/git/diff",
   "POST /api/git/worktree/add", "DELETE /api/git/worktree"}

LookupRoutes == {"DELETE /api/devices/:deviceId", "DELETE /api/shells/:sessionId"}

\* C8: a git handler sends nothing before its operation has settled and
\* exactly one response after: 200 with the result when the operation
\* resolved, 500 with {error: message} when it rejected; a DELETE whose
\* branch deletion failed after the worktree was removed is answered 200
\* with the warning.  The device and shell DELETE handlers answer 404
\* exactly when the lookup reported a miss.
C8_OneResponsePerRequest ==
  \A s \in Slots :
    LET c == ctx[s]
    IN /\ c.route \in GitRoutes =>
            /\ Len(c.res) = (IF c.pc = "done" THEN 1 ELSE 0)
            /\ c.pc = "done" =>
                 /\ Settled(c.op)
                 /\ c.op.state = "resolved" =>
                      /\ c.res[1].status = 200
                      /\ c.res[1].body =
                           IF c.route = "POST /api/git/diff"
                           THEN [diff |-> c.op.value.text]
                           ELSE [json |-> c.op.value]
                 /\ c.op.state = "rejected" =>
                      c.res[1] = [status |-> 500,
                                  body |-> [error |-> c.op.err.message]]
                 /\ (c.route = "DELETE /api/git/worktree"
                       /\ Len(c.calls) = 2
                       /\ c.calls[2].promise.state = "rejected") =>
                      /\ c.res[1].status = 200
                      /\ "warning" \in DOMAIN c.res[1].body.json
       /\ c.route \in LookupRoutes =>
            /\ Len(c.res) = 1
            /\ c.res[1].status = 404 <=> ~c.lookup
            /\ c.res[1].status = 200 <=> c.lookup

\* a DELETE /api/git/worktree answered after the branch deletion failed
C8_Witness ==
  \E s \in Slots :
    /\ ctx[s].route = "DELETE /api/git/worktree"
    /\ ctx[s].pc = "done"
    /\ Len(ctx[s].calls) = 2
    /\ ctx[s].calls[2].promise.state = "rejected"
    /\ ctx[s].res[1].status = 200

\* C10: removeWorktree first issues 'worktree remove <path> --force'; it
\* issues 'branch -D <branch>' only once that invocation has resolved, at
\* most once, and never when it was rejected; it issues nothing else.
C10_RemoveWorktreeOrder ==
  \A s \in Of("removeWorktree") :
    LET c == ctx[s]
    IN /\ Len(c.calls) \in {1, 2}
       /\ c.calls[1].args = <<"worktree", "remove", c.worktreePath, "--force">>
       /\ c.calls[1].cwd = c.projectPath
       /\ Len(c.calls) = 2 =>
            /\ c.calls[1].promise.state = "resolved"
            /\ c.calls[2].args = <<"branch", "-D", c.branchName>>
            /\ c.calls[2].cwd = c.projectPath
       /\ c.calls[1].promise.state = "rejected" => Len(c.calls) = 1

\* the worktree removal failed and the operation has finished
C10_Witness ==
  \E s \in Of("removeWorktree") :
    /\ ctx[s].calls[1].promise.state = "rejected"
    /\ Finished(ctx[s])

====
